---- MODULE Spec2Model ----
(***************************************************************************)
(* Model of swervedrive/icr/timescaler.py: the TimeScaler class            *)
(* (compute_scaling_bounds, compute_scaling_parameters, scale_motion) and  *)
(* the in_range helper.                                                    *)
(*                                                                         *)
(* Python floats are modelled as exact rationals <<n, d>> in lowest terms  *)
(* with d > 0, so that +, -, *, / and the comparisons are computed and not *)
(* assumed.  Floating point rounding is outside the model.                 *)
(***************************************************************************)
EXTENDS Integers, Sequences, FiniteSets, TLC

----------------------------------------------------------------------------
(* Rational arithmetic: the float operators the source uses.               *)

AbsInt(n) == IF n < 0 THEN -n ELSE n

RECURSIVE GCD(_, _)
GCD(a, b) == IF b = 0 THEN a ELSE GCD(b, a % b)

\* the rational n/d in lowest terms, d # 0
Q(n, d) ==
    LET g == GCD(AbsInt(n), AbsInt(d))
        s == IF d < 0 THEN -1 ELSE 1
    IN  <<(s * n) \div g, (s * d) \div g>>

Zero == Q(0, 1)
One == Q(1, 1)

Add(a, b) == Q(a[1] * b[2] + b[1] * a[2], a[2] * b[2])
Sub(a, b) == Q(a[1] * b[2] - b[1] * a[2], a[2] * b[2])
Mul(a, b) == Q(a[1] * b[1], a[2] * b[2])
\* a / b, only used where b # 0 (the source divides by a command that is
\* not close to zero)
Div(a, b) == Q(a[1] * b[2], a[2] * b[1])
\* x ** 2
Sq(a) == Mul(a, a)
Leq(a, b) == a[1] * b[2] <= b[1] * a[2]
Lt(a, b) == a[1] * b[2] < b[1] * a[2]
AbsQ(a) == <<AbsInt(a[1]), a[2]>>

\* a value inserted in place of the builtin max by a faulty tightening that
\* forgets the running bound
max_forgets_current(a, b) == b
\* Python's max(a, b) and min(a, b)
max(a, b) == IF Lt(a, b) THEN b ELSE a
min(a, b) == IF Lt(b, a) THEN b ELSE a

----------------------------------------------------------------------------
(* Pure helpers of the source.                                             *)

\* exclusive membership test, a faulty in_range
in_range_exclusive(value, rng) == Lt(rng[1], value) /\ Lt(value, rng[2])
\* in_range(value, rng): rng[0] <= value <= rng[1] (rng is 1-indexed here)
in_range(value, rng) == Leq(rng[1], value) /\ Leq(value, rng[2])

\* abs_tol of the two math.isclose calls
abs_tol == Q(1, 100)

\* a faulty closeness test that excludes the boundary
isclose_strict(value) == Lt(AbsQ(Sub(value, Zero)), abs_tol)
\* math.isclose(value, 0, abs_tol=1e-2): abs(value - 0) <=
\* max(rel_tol * max(abs(value), 0), abs_tol) with rel_tol = 1e-9; the
\* relative term is below abs(value) unless value = 0, so the test is
\* abs(value) <= abs_tol
isclose(value) == Leq(AbsQ(Sub(value, Zero)), abs_tol)

\* a faulty index choice that never reverses the inequality
bound_indices_noswap(cmd) == <<0, 1>>
\* (lower, upper) = (1, 0) if cmd < 0 else (0, 1)
bound_indices(cmd) == IF Lt(cmd, Zero) THEN <<1, 0>> ELSE <<0, 1>>

\* rng[i] for the source's 0-based index i
At(rng, i) == rng[i + 1]

\* a faulty working point: the minimum instead of the maximum
working_point_lower(ds_lower, ds_upper) == ds_lower
\* s_dot = ds_upper, the working point of the second-derivative constraint
working_point(ds_lower, ds_upper) == ds_upper

\* ds_lower, ds_upper after tightening with one constraint bounds/cmd
tighten(ds, bounds, cmd) ==
    LET idx == bound_indices(cmd)
    IN  <<max(ds[1], Div(At(bounds, idx[1]), cmd)),
          min(ds[2], Div(At(bounds, idx[2]), cmd))>>

\* d2s_lower, d2s_upper after the constraint on the second derivative
tighten2(d2s, bounds, dbeta, d2beta, sd) ==
    LET idx == bound_indices(dbeta)
    IN  <<max(d2s[1], Div(Sub(At(bounds, idx[1]), Mul(d2beta, Sq(sd))), dbeta)),
          min(d2s[2], Div(Sub(At(bounds, idx[2]), Mul(d2beta, Sq(sd))), dbeta))>>

\* the fast path test of compute_scaling_bounds
all_in_range(bdb, b2b, p2b, dbeta, d2beta, dphi_dot) ==
    /\ in_range(dbeta, bdb)
    /\ in_range(d2beta, b2b)
    /\ in_range(dphi_dot, p2b)

\* TimeScaler.compute_scaling_bounds with the instance's bounds bdb
\* (beta_dot_b), b2b (beta_2dot_b), p2b (phi_2dot_b):
\* <<ds_lower, ds_upper, d2s_lower, d2s_upper>>
compute_scaling_bounds(bdb, b2b, p2b, dbeta, d2beta, dphi_dot) ==
    IF all_in_range(bdb, b2b, p2b, dbeta, d2beta, dphi_dot)
    THEN <<Zero, One, Zero, One>>
    ELSE
        LET ignore_beta == isclose(dbeta)
            ignore_phi == isclose(dphi_dot)
            ds0 == <<Zero, One>>
            d2s0 == <<Zero, One>>
            ds1 == IF ~ignore_beta THEN tighten(ds0, b2b, dbeta) ELSE ds0
            ds2 == IF ~ignore_phi THEN tighten(ds1, p2b, dphi_dot) ELSE ds1
            d2s1 == IF ~ignore_beta
                    THEN tighten2(d2s0, b2b, dbeta, d2beta,
                                  working_point(ds2[1], ds2[2]))
                    ELSE d2s0
        IN  <<ds2[1], ds2[2], d2s1[1], d2s1[2]>>

\* a faulty selection that takes the lower ends
selected_lower(ds_lower, ds_upper, d2s_lower, d2s_upper) ==
    <<ds_lower, d2s_lower>>
\* the pair <<s_dot, s_2dot>> compute_scaling_parameters stores
selected(ds_lower, ds_upper, d2s_lower, d2s_upper) == <<ds_upper, d2s_upper>>

\* the triple scale_motion computes from the stored pair:
\* <<beta_dot, beta_2dot, phi_2dot>>
scaled(sd, s2d, dbeta, d2beta, dphi_dot) ==
    <<Mul(dbeta, sd),
      Add(Mul(d2beta, Sq(sd)), Mul(dbeta, s2d)),
      Mul(dphi_dot, sd)>>

----------------------------------------------------------------------------
(* Inputs.                                                                 *)

\* bound pairs [lo, hi] a TimeScaler is constructed with
BetaDotBounds == {<<Q(-1, 1), Q(1, 1)>>, <<Q(-4, 1), Q(4, 1)>>}
BetaAccelBounds ==
    {<<Q(-2, 1), Q(2, 1)>>, <<Q(-3, 1), Q(3, 1)>>, <<Q(1, 1), Q(2, 1)>>,
     <<Q(-2, 1), Q(-1, 1)>>}
PhiAccelBounds == {<<Q(-3, 1), Q(3, 1)>>, <<Q(1, 1), Q(3, 1)>>}

\* command samples given to compute_scaling_bounds on its own
DbetaVals == {Q(-4, 1), Q(-1, 100), Q(1, 200), Q(1, 100), Q(3, 1), Q(4, 1)}
D2betaVals == {Q(-20, 1), Q(0, 1), Q(1, 1), Q(20, 1)}
DphiDotVals == {Q(-4, 1), Q(0, 1), Q(2, 1), Q(4, 1)}
Samples == DbetaVals \X D2betaVals \X DphiDotVals

\* command samples of the control loop that calls all three operations
TickSamples ==
    {Q(-4, 1), Q(1, 100), Q(3, 1), Q(4, 1)}
        \X {Q(1, 1), Q(20, 1)}
        \X {Q(0, 1), Q(4, 1)}

\* arguments of compute_scaling_parameters that are not the result of a
\* compute_scaling_bounds call
ParamArgs == {<<Zero, Q(2, 1), Zero, Q(1, 2)>>, <<One, Q(1, 2), One, Zero>>}

----------------------------------------------------------------------------
(* State.                                                                  *)

VARIABLES
    beta_dot_b,     \* self.beta_dot_b
    beta_2dot_b,    \* self.beta_2dot_b
    phi_2dot_b,     \* self.phi_2dot_b
    attrs,          \* the names of the attributes the instance has
    s_dot,          \* self.s_dot, meaningful when "s_dot" \in attrs
    s_2dot,         \* self.s_2dot, meaningful when "s_2dot" \in attrs
    call,           \* the last call: its name, arguments, return value and
                    \* the exception it raised ("" when it returned)
    last_params,    \* history: <<ds_upper, d2s_upper>> of the most recent
                    \* compute_scaling_parameters call, <<>> before the first
    sel_from        \* history: <<sample, result>> when the most recent
                    \* compute_scaling_parameters call was given the result of
                    \* the compute_scaling_bounds call on that sample, else <<>>

vars == <<beta_dot_b, beta_2dot_b, phi_2dot_b, attrs, s_dot, s_2dot, call,
          last_params, sel_from>>

config == <<beta_dot_b, beta_2dot_b, phi_2dot_b>>

\* a faulty constructor result that also has the scaling parameters
init_attrs_with_params ==
    {"beta_dot_b", "beta_2dot_b", "phi_2dot_b", "s_dot", "s_2dot"}
\* the attributes __init__ assigns
init_attrs == {"beta_dot_b", "beta_2dot_b", "phi_2dot_b"}

\* TimeScaler(beta_dot_bounds, beta_2dot_bounds, phi_2dot_bounds)
Init ==
    /\ beta_dot_b \in BetaDotBounds
    /\ beta_2dot_b \in BetaAccelBounds
    /\ phi_2dot_b \in PhiAccelBounds
    /\ attrs = init_attrs
    /\ s_dot = Zero
    /\ s_2dot = Zero
    /\ call = [op |-> "__init__", args |-> <<>>, ret |-> <<>>, raised |-> ""]
    /\ last_params = <<>>
    /\ sel_from = <<>>

\* self.compute_scaling_bounds(dbeta, d2beta, dphi_dot) for a sample of S
ComputeScalingBoundsOn(S) ==
    \E smp \in S :
        /\ call' = [op |-> "compute_scaling_bounds",
                    args |-> smp,
                    ret |-> compute_scaling_bounds(beta_dot_b, beta_2dot_b,
                                phi_2dot_b, smp[1], smp[2], smp[3]),
                    raised |-> ""]
        /\ UNCHANGED <<config, attrs, s_dot, s_2dot, last_params, sel_from>>

ComputeScalingBounds == ComputeScalingBoundsOn(TickSamples)

\* the argument tuples compute_scaling_parameters is called with: the result
\* of the compute_scaling_bounds call just made, or one of ParamArgs
ParamArgsNow ==
    ParamArgs \cup
        (IF call.op = "compute_scaling_bounds" THEN {call.ret} ELSE {})

\* self.compute_scaling_parameters(ds_lower, ds_upper, d2s_lower, d2s_upper)
ComputeScalingParameters ==
    \E a \in ParamArgsNow :
        LET sel == selected(a[1], a[2], a[3], a[4])
        IN  /\ s_dot' = sel[1]
            /\ s_2dot' = sel[2]
            /\ attrs' = attrs \cup {"s_dot", "s_2dot"}
            /\ call' = [op |-> "compute_scaling_parameters", args |-> a,
                        ret |-> <<>>, raised |-> ""]
            /\ last_params' = <<a[2], a[4]>>
            /\ sel_from' = IF /\ call.op = "compute_scaling_bounds"
                                /\ a = call.ret
                             THEN <<call.args, call.ret>>
                             ELSE <<>>
            /\ UNCHANGED config

\* self.scale_motion(dbeta, d2beta, dphi_dot); reading self.s_dot of an
\* instance without that attribute raises AttributeError
ScaleMotion ==
    \E smp \in TickSamples :
        /\ call' = IF "s_dot" \in attrs /\ "s_2dot" \in attrs
                   THEN [op |-> "scale_motion", args |-> smp,
                         ret |-> scaled(s_dot, s_2dot, smp[1], smp[2], smp[3]),
                         raised |-> ""]
                   ELSE [op |-> "scale_motion", args |-> smp,
                         ret |-> <<>>, raised |-> "AttributeError"]
        /\ UNCHANGED <<config, attrs, s_dot, s_2dot, last_params, sel_from>>

Next ==
    \/ ComputeScalingBounds
    \/ ComputeScalingParameters
    \/ ScaleMotion

\* one instance driven by any sequence of calls
Spec == Init /\ [][Next]_vars

\* compute_scaling_bounds as a pure function of the bounds and the sample
BoundsCall == ComputeScalingBoundsOn(Samples)

BoundsNext == BoundsCall

SpecBounds == Init /\ [][BoundsNext]_vars

----------------------------------------------------------------------------
(* Vocabulary of the properties.                                           *)

IsBoundsCall == call.op = "compute_scaling_bounds"
IsParamsCall == call.op = "compute_scaling_parameters"
IsScaleCall == call.op = "scale_motion"

\* lo <= x <= hi for the pair b = [lo, hi]
Within(x, b) == Leq(b[1], x) /\ Leq(x, b[2])

Identity == <<Zero, One, Zero, One>>

\* the sample of the last call satisfies all three bound pairs
SampleWithinAll ==
    /\ Within(call.args[1], beta_dot_b)
    /\ Within(call.args[2], beta_2dot_b)
    /\ Within(call.args[3], phi_2dot_b)

\* |x| <= 1e-2
Ignored(x) == Leq(Q(-1, 100), x) /\ Leq(x, Q(1, 100))

\* a four-tuple of scaling bounds with an empty interval
Crossed(r) == Lt(r[2], r[1]) \/ Lt(r[4], r[3])

\* the end points and the middle of [lo, hi], nothing when it is empty
Pts(lo, hi) ==
    IF Leq(lo, hi) THEN {lo, hi, Mul(Add(lo, hi), Q(1, 2))} ELSE {}

\* the chain rule of scale_motion, written out
ChainRule(u, v, smp) ==
    <<Mul(smp[1], u),
      Add(Mul(Mul(smp[2], u), u), Mul(smp[1], v)),
      Mul(smp[3], u)>>

----------------------------------------------------------------------------
(* C1 -- contract of compute_scaling_bounds.                               *)

\* C1: for every ds/dt in the returned [dsLower, dsUpper] and every d2s/dt2
\* in the returned [d2sLower, d2sUpper], the scaled command satisfies
\* betaDotBounds, betaAccelBounds and phiAccelBounds (stated for the end
\* points and the middle of each interval).
C1_ScaledWithinBounds ==
    IsBoundsCall =>
        \A u \in Pts(call.ret[1], call.ret[2]) :
            \A v \in Pts(call.ret[3], call.ret[4]) :
                LET out == ChainRule(u, v, call.args)
                IN  /\ Within(out[1], beta_dot_b)
                    /\ Within(out[2], beta_2dot_b)
                    /\ Within(out[3], phi_2dot_b)

----------------------------------------------------------------------------
(* C2 -- monotonicity in the actuator bounds.                              *)

\* new is old with its lower end decreased and/or its upper end increased
Widened(new, old) ==
    /\ Leq(new[1], old[1])
    /\ Leq(old[2], new[2])
    /\ new # old

\* the configurations that widen exactly one bound pair of the current one
Widenings ==
    {w \in BetaDotBounds \X BetaAccelBounds \X PhiAccelBounds :
        \E i \in 1..3 :
            /\ Widened(w[i], config[i])
            /\ \A j \in 1..3 : j # i => w[j] = config[j]}

ResultUnder(w) ==
    compute_scaling_bounds(w[1], w[2], w[3],
                           call.args[1], call.args[2], call.args[3])

DsNotShrunk(new, old) == Leq(new[1], old[1]) /\ Leq(old[2], new[2])
D2sNotShrunk(new, old) == Leq(new[3], old[3]) /\ Leq(old[4], new[4])

\* C2 as stated: widening one bound pair shrinks neither returned interval.
C2_Monotone ==
    IsBoundsCall =>
        \A w \in Widenings :
            /\ DsNotShrunk(ResultUnder(w), call.ret)
            /\ D2sNotShrunk(ResultUnder(w), call.ret)

\* C2 amended: widening one bound pair never shrinks [dsLower, dsUpper], and
\* never shrinks [d2sLower, d2sUpper] when it leaves dsUpper unchanged.
C2_MonotoneDs ==
    IsBoundsCall =>
        \A w \in Widenings :
            /\ DsNotShrunk(ResultUnder(w), call.ret)
            /\ ResultUnder(w)[2] = call.ret[2]
                  => D2sNotShrunk(ResultUnder(w), call.ret)

\* one widening raises dsUpper, another leaves it and raises d2sUpper
C2_Witness ==
    /\ IsBoundsCall
    /\ \E w \in Widenings : Lt(call.ret[2], ResultUnder(w)[2])
    /\ \E w \in Widenings :
          /\ ResultUnder(w)[2] = call.ret[2]
          /\ Lt(call.ret[4], ResultUnder(w)[4])

----------------------------------------------------------------------------
(* C3 -- fast path.                                                        *)

\* C3: when dbeta, d2beta and dphiDot each lie in their bound pair (ends
\* included), compute_scaling_bounds returns exactly (0, 1, 0, 1).
C3_FastPath ==
    IsBoundsCall /\ SampleWithinAll => call.ret = Identity

\* the fast path taken by a negative dbeta that sits on the end of its bound
C3_Witness ==
    /\ IsBoundsCall
    /\ SampleWithinAll
    /\ call.args[1] = beta_dot_b[1]
    /\ Lt(call.args[1], Zero)
    /\ call.ret = Identity

----------------------------------------------------------------------------
(* C4 -- sign-correct tightening of the ds interval.                       *)

\* candidate values of ds/dt: a grid around [0, 1] and the returned ends
DsCandidates ==
    {Q(k, 8) : k \in -2..10}
        \cup {call.ret[1], call.ret[2],
              Add(call.ret[2], Q(1, 16)), Sub(call.ret[1], Q(1, 16))}

\* x satisfies 0 <= x <= 1 and the constraint of every command not ignored
DsAdmissible(x) ==
    /\ Leq(Zero, x)
    /\ Leq(x, One)
    /\ ~Ignored(call.args[1]) => Within(Mul(call.args[1], x), beta_2dot_b)
    /\ ~Ignored(call.args[3]) => Within(Mul(call.args[3], x), phi_2dot_b)

WorkedBounds ==
    /\ beta_dot_b = <<Q(-1, 1), Q(1, 1)>>
    /\ beta_2dot_b = <<Q(-2, 1), Q(2, 1)>>
    /\ phi_2dot_b = <<Q(-3, 1), Q(3, 1)>>

\* C4: outside the fast path [dsLower, dsUpper] is exactly the set of the
\* admissible x, for either sign of the commands; the worked scenario gives
\* dsLower = 0 and dsUpper = 0.5.
C4_DsInterval ==
    /\ IsBoundsCall /\ ~SampleWithinAll =>
          \A x \in DsCandidates :
              (Leq(call.ret[1], x) /\ Leq(x, call.ret[2])) <=> DsAdmissible(x)
    /\ IsBoundsCall /\ WorkedBounds /\ call.args = <<Q(4, 1), Zero, Zero>> =>
          call.ret[1] = Zero /\ call.ret[2] = Q(1, 2)

\* a negative dbeta outside the fast path tightened dsUpper below 1
C4_Witness ==
    /\ IsBoundsCall
    /\ ~SampleWithinAll
    /\ Lt(call.args[1], Q(-1, 100))
    /\ Lt(call.ret[2], One)
    /\ Leq(call.ret[1], call.ret[2])

----------------------------------------------------------------------------
(* C5 -- degeneracy.                                                       *)

\* what the phi constraint alone yields for <<dsLower, dsUpper>>
PhiAlone ==
    LET d == call.args[3]
    IN  IF Ignored(d) THEN <<Zero, One>>
        ELSE IF Lt(d, Zero)
        THEN <<max(Zero, Div(phi_2dot_b[2], d)), min(One, Div(phi_2dot_b[1], d))>>
        ELSE <<max(Zero, Div(phi_2dot_b[1], d)), min(One, Div(phi_2dot_b[2], d))>>

\* C5 as stated: whenever |dbeta| <= 1e-2 the result is the phi constraint's
\* ds interval with (d2sLower, d2sUpper) = (0, 1).
C5_Degenerate ==
    IsBoundsCall /\ Ignored(call.args[1]) =>
        call.ret = <<PhiAlone[1], PhiAlone[2], Zero, One>>

\* C5 amended: whenever |dbeta| <= 1e-2 and the fast path is not taken the
\* result is the phi constraint's ds interval with (d2sLower, d2sUpper) =
\* (0, 1); when |dphiDot| <= 1e-2 as well the result is (0, 1, 0, 1) in
\* every case.
C5_DegenerateOffFastPath ==
    /\ IsBoundsCall /\ Ignored(call.args[1]) /\ ~SampleWithinAll =>
          call.ret = <<PhiAlone[1], PhiAlone[2], Zero, One>>
    /\ IsBoundsCall /\ Ignored(call.args[1]) /\ Ignored(call.args[3]) =>
          call.ret = Identity

\* dbeta on the tolerance, d2beta outside its bounds, phi tightening dsUpper
C5_Witness ==
    /\ IsBoundsCall
    /\ call.args[1] = Q(1, 100)
    /\ ~Within(call.args[2], beta_2dot_b)
    /\ Lt(call.ret[2], One)
    /\ call.ret[2] = PhiAlone[2]

----------------------------------------------------------------------------
(* C10 -- bounds that contain zero.                                        *)

ContainsZero(b) == Within(Zero, b)

\* C10: when betaAccelBounds and phiAccelBounds each contain zero, dsLower
\* is 0 and 0 <= dsUpper <= 1, so [dsLower, dsUpper] is not empty.
C10_DsNonEmpty ==
    IsBoundsCall /\ ContainsZero(beta_2dot_b) /\ ContainsZero(phi_2dot_b) =>
        /\ call.ret[1] = Zero
        /\ Leq(Zero, call.ret[2])
        /\ Leq(call.ret[2], One)

\* such bounds, a negative command, and an empty d2s interval
C10_Witness ==
    /\ IsBoundsCall
    /\ ContainsZero(beta_2dot_b) /\ ContainsZero(phi_2dot_b)
    /\ Lt(call.args[1], Q(-1, 100))
    /\ Lt(call.ret[2], One)
    /\ Lt(call.ret[4], call.ret[3])

----------------------------------------------------------------------------
(* C6 -- scale_motion consumes the most recent selection.                  *)

\* C6: once compute_scaling_parameters has been called, scale_motion returns
\* (dbeta*u, d2beta*u^2 + dbeta*v, dphiDot*u) for the (dsUpper, d2sUpper) =
\* (u, v) of the most recent compute_scaling_parameters call, whatever calls
\* came in between.
C6_UsesLatestParams ==
    /\ last_params # <<>> =>
          /\ {"s_dot", "s_2dot"} \subseteq attrs
          /\ <<s_dot, s_2dot>> = last_params
    /\ IsScaleCall /\ last_params # <<>> =>
          /\ call.raised = ""
          /\ call.ret = ChainRule(last_params[1], last_params[2], call.args)

\* u = 2.0, v = 0.5 and the sample (3.0, 1.0, 4.0) gave (6.0, 5.5, 8.0)
C6_Witness ==
    /\ IsScaleCall
    /\ last_params = <<Q(2, 1), Q(1, 2)>>
    /\ call.args = <<Q(3, 1), Q(1, 1), Q(4, 1)>>
    /\ call.ret = <<Q(6, 1), Q(11, 2), Q(8, 1)>>

----------------------------------------------------------------------------
(* C7 -- infeasibility is flagged.                                         *)

\* C7: a result of compute_scaling_bounds with dsLower > dsUpper or
\* d2sLower > d2sUpper is not a plain four-tuple returned normally, and
\* compute_scaling_parameters does not accept such a tuple.
C7_InfeasibleFlagged ==
    /\ IsBoundsCall /\ Len(call.ret) = 4 /\ Crossed(call.ret) =>
          call.raised # ""
    /\ IsParamsCall /\ Crossed(call.args) => call.raised # ""

----------------------------------------------------------------------------
(* C8 -- pipeline guarantee for the module acceleration.                   *)

\* the last call is scale_motion on the sample whose bounds were selected
PipelineDone ==
    /\ IsScaleCall
    /\ sel_from # <<>>
    /\ sel_from[1] = call.args

\* C8: off the fast path, with |dbeta| > 1e-2 and d2sLower <= d2sUpper
\* returned, compute_scaling_bounds -> compute_scaling_parameters ->
\* scale_motion on the same sample yields betaAccel within betaAccelBounds.
C8_PipelineBetaAccel ==
    (/\ PipelineDone
     /\ ~SampleWithinAll
     /\ ~Ignored(call.args[1])
     /\ Leq(sel_from[2][3], sel_from[2][4]))
        => /\ call.raised = ""
           /\ Within(call.ret[2], beta_2dot_b)

\* the pipeline ran for a negative dbeta whose lower d2s bound is active
C8_Witness ==
    /\ PipelineDone
    /\ ~SampleWithinAll
    /\ Lt(call.args[1], Q(-1, 100))
    /\ Lt(Zero, sel_from[2][3])
    /\ Leq(sel_from[2][3], sel_from[2][4])
    /\ Within(call.ret[2], beta_2dot_b)

----------------------------------------------------------------------------
(* C9 -- scale_motion before any selection.                                *)

\* C9: the constructor stores only the three bound pairs, and scale_motion
\* called before any compute_scaling_parameters call raises and returns no
\* scaled command.
C9_ScaleBeforeParamsRaises ==
    /\ call.op = "__init__" =>
          attrs = {"beta_dot_b", "beta_2dot_b", "phi_2dot_b"}
    /\ IsScaleCall /\ last_params = <<>> =>
          call.raised = "AttributeError" /\ call.ret = <<>>

\* scale_motion raised on an instance that never selected parameters
C9_Witness ==
    /\ IsScaleCall
    /\ last_params = <<>>
    /\ call.raised = "AttributeError"

====
